---- MODULE Spec2Model ----
(***************************************************************************)
(* Model of convert.py: the conversion pipeline (convert_files and its two *)
(* parsers) and the storage-event handler (lambda_handler).                *)
(*                                                                         *)
(* Strings are sequences of tokens: a path is <<"pse", ".zip">>, a date is *)
(* <<"2024", "-", "12", "-", "01">>.  A CSV row is a sequence of fields,    *)
(* each field a string; a CSV file is a sequence of rows.                  *)
(***************************************************************************)
EXTENDS Integers, Sequences, FiniteSets, TLC

VARIABLES
  mode,        \* "cli": convert_files(sys.argv[1:], ".");  "aws": lambda_handler
  argv,        \* the input paths of a cli run
  key,         \* the object key of the event of an aws run
  files,       \* convert_files: the parameter files
  pc,          \* convert_files: control position
  i,           \* convert_files: index of the current path in files
  listing,     \* the names os.listdir(extract_dir) still has to yield
  fh,          \* the file a parser opened last: whether still open, its rows
  pse_data,    \* provider accumulator (insertion-ordered dict)
  govee_data,  \* sensor accumulator (insertion-ordered dict)
  wk,          \* index of the series an output loop is at
  outdir,      \* the output directory: filename -> rows written
  written,     \* the filenames convert_files opened for writing, in order
  tmpdirs,     \* the temporary directories that exist
  exc,         \* the exception that ended the run, or "none"
  hpc,         \* lambda_handler: control position
  uplist,      \* the names os.listdir(outdir) still has to yield
  outkeys,     \* lambda_handler: outkeys
  s3calls,     \* the calls made on the s3 client, in order
  result       \* what lambda_handler returned

vars == <<mode, argv, key, files, pc, i, listing, fh, pse_data, govee_data, wk,
          outdir, written, tmpdirs, exc, hpc, uplist, outkeys, s3calls, result>>

\* ------------------------------------------------------------------ bounds
MaxFiles == 2     \* paths on a command line
MaxRows == 3      \* rows of one CSV file

\* ----------------------------------------------------------------- strings
EndsWith(s, suffix) == Len(s) >= 1 /\ s[Len(s)] = suffix

RECURSIVE IndexFrom(_, _, _)
\* least j >= from with s[j] = t, or Len(s) + 1
IndexFrom(s, t, from) ==
  IF from > Len(s) THEN Len(s) + 1
  ELSE IF s[from] = t THEN from ELSE IndexFrom(s, t, from + 1)

RECURSIVE LastIndex(_, _, _)
\* greatest j <= from with s[j] = t, or 0
LastIndex(s, t, from) ==
  IF from = 0 THEN 0
  ELSE IF s[from] = t THEN from ELSE LastIndex(s, t, from - 1)

\* os.path.basename(path)
Basename(path) == SubSeq(path, LastIndex(path, "/", Len(path)) + 1, Len(path))

\* s.split(sep)[0]
SplitFirst(s, sep) == SubSeq(s, 1, IndexFrom(s, sep, 1) - 1)

RECURSIVE SkipSpaces(_, _)
SkipSpaces(s, from) ==
  IF from > Len(s) THEN Len(s) + 1
  ELSE IF s[from] = " " THEN SkipSpaces(s, from + 1) ELSE from

\* s.split(): the first whitespace-separated word, <<>> when there is none
FirstWord(s) ==
  LET b == SkipSpaces(s, 1)
  IN SubSeq(s, b, IndexFrom(s, " ", b) - 1)

\* s.replace(old, '')
Remove(s, old) ==
  LET Keep(t) == t # old
  IN SelectSeq(s, Keep)

LowerToken(t) ==
  CASE t = "Kitchen" -> "kitchen"
    [] t = "Export" -> "export"
    [] OTHER -> t

\* s.lower()
Lower(s) == [j \in 1..Len(s) |-> LowerToken(s[j])]

FloatTable ==
  ("1.5" :> 15) @@ ("2.0" :> 20) @@ ("70.5" :> 705) @@ ("45.0" :> 450)

\* float(field) raises ValueError unless the field is a number
IsFloat(field) == Len(field) = 1 /\ field[1] \in DOMAIN FloatTable

\* float(field), in tenths
Float(field) == FloatTable[field[1]]

\* ------------------------------------------------- collections.defaultdict
\* a dict is the sequence of its items [k, v] in insertion order
Keys(d) == {d[j].k : j \in 1..Len(d)}

Get(d, k) == d[CHOOSE j \in 1..Len(d) : d[j].k = k].v

\* d[k].append(rec) on a defaultdict(list)
DictAppend(d, k, rec) ==
  IF k \in Keys(d)
  THEN [j \in 1..Len(d) |->
          IF d[j].k = k THEN [k |-> k, v |-> Append(d[j].v, rec)] ELSE d[j]]
  ELSE Append(d, [k |-> k, v |-> <<rec>>])

\* ---------------------------------------------------------- parse_pse_csv
\* the header search: the index of the first row with row[0] == "TYPE",
\* Len(rows) + 1 when next() runs off the end of the file
RECURSIVE HeaderIndex(_, _)
HeaderIndex(rows, j) ==
  IF j > Len(rows) THEN Len(rows) + 1
  ELSE IF Len(rows[j]) > 0 /\ rows[j][1] = <<"TYPE">> THEN j
  ELSE HeaderIndex(rows, j + 1)

\* PseRow with the series looked up before the usage field is converted
PseRow_LookupFirst(row, usage_data) ==
  IF Len(row) < 5 THEN [data |-> usage_data, exc |-> "IndexError"]
  ELSE IF ~IsFloat(row[5])
  THEN [data |-> IF row[1] \in Keys(usage_data) THEN usage_data
                 ELSE Append(usage_data, [k |-> row[1], v |-> <<>>]),
        exc |-> "ValueError"]
  ELSE LET date == row[2]
           start == date \o <<" ">> \o row[3]
           end == date \o <<" ">> \o row[4]
           usage == Float(row[5])
       IN [data |-> DictAppend(usage_data, row[1], <<start, end, usage>>),
           exc |-> "none"]

\* the body of the data loop for one row
PseRow(row, usage_data) ==
  IF Len(row) < 5 THEN [data |-> usage_data, exc |-> "IndexError"]
  ELSE IF ~IsFloat(row[5]) THEN [data |-> usage_data, exc |-> "ValueError"]
  ELSE LET date == row[2]
           start == date \o <<" ">> \o row[3]
           end == date \o <<" ">> \o row[4]
           usage == Float(row[5])
       IN [data |-> DictAppend(usage_data, row[1], <<start, end, usage>>),
           exc |-> "none"]

RECURSIVE PseLoop(_, _, _)
PseLoop(rows, j, usage_data) ==
  IF j > Len(rows) THEN [data |-> usage_data, exc |-> "none"]
  ELSE LET r == PseRow(rows[j], usage_data)
       IN IF r.exc # "none" THEN r ELSE PseLoop(rows, j + 1, r.data)

\* parse_pse_csv with one more next() after the header row
parse_pse_csv_SkipOne(rows, usage_data) ==
  LET h == HeaderIndex(rows, 1)
  IN IF h > Len(rows) THEN [data |-> usage_data, exc |-> "StopIteration"]
     ELSE PseLoop(rows, h + 2, usage_data)

parse_pse_csv(rows, usage_data) ==
  LET h == HeaderIndex(rows, 1)
  IN IF h > Len(rows) THEN [data |-> usage_data, exc |-> "StopIteration"]
     ELSE PseLoop(rows, h + 1, usage_data)

\* -------------------------------------------------------- parse_govee_csv
GoveeRow(row, name, data) ==
  IF Len(row) < 3 THEN [data |-> data, exc |-> "IndexError"]
  ELSE IF ~IsFloat(row[2]) \/ ~IsFloat(row[3])
  THEN [data |-> data, exc |-> "ValueError"]
  ELSE LET timestamp == row[1]
           temp == Float(row[2])
           humidity == Float(row[3])
       IN [data |-> DictAppend(data, name \o <<"_temp">>,
                               <<timestamp, temp, humidity>>),
           exc |-> "none"]

RECURSIVE GoveeLoop(_, _, _, _)
GoveeLoop(rows, j, name, data) ==
  IF j > Len(rows) THEN [data |-> data, exc |-> "none"]
  ELSE LET r == GoveeRow(rows[j], name, data)
       IN IF r.exc # "none" THEN r ELSE GoveeLoop(rows, j + 1, name, r.data)

\* parse_govee_csv without the next() that skips the first row
parse_govee_csv_NoSkip(csv_path, rows, data) ==
  IF Len(rows) = 0 THEN [data |-> data, exc |-> "StopIteration"]
  ELSE LET name == Lower(SplitFirst(Basename(csv_path), "_"))
       IN GoveeLoop(rows, 1, name, data)

parse_govee_csv(csv_path, rows, data) ==
  IF Len(rows) = 0 THEN [data |-> data, exc |-> "StopIteration"]
  ELSE LET name == Lower(SplitFirst(Basename(csv_path), "_"))
       IN GoveeLoop(rows, 2, name, data)

\* --------------------------------------------------- get_data_range_dates
get_data_range_dates(data) ==
  IF Len(data) = 0 THEN [exc |-> "IndexError"]
  ELSE LET first == data[1][1]
           last == data[Len(data)][1]
       IN IF FirstWord(first) = <<>> \/ FirstWord(last) = <<>>
          THEN [exc |-> "IndexError"]
          ELSE [exc |-> "none",
                first_date |-> Remove(FirstWord(first), "-"),
                last_date |-> Remove(FirstWord(last), "-")]

\* ----------------------------------------------------------------- inputs
ZipPath == <<"pse", ".zip">>
BadZipPath == <<"corrupt", ".zip">>
SensorPath == <<"exports", "/", "Kitchen", "_", "Export", ".csv">>
PlainCsvPath == <<"bedroom", ".csv">>
OtherPath == <<"notes", ".txt">>
Paths == {ZipPath, BadZipPath, SensorPath, PlainCsvPath, OtherPath}

\* the file system: the file of this name holds bytes that are no zip container
IsBadZip(path) == Basename(path) = BadZipPath

SeqsUpTo(S, n) == UNION {[1..m -> S] : m \in 0..n}

Day1 == <<"2024", "-", "12", "-", "01">>
Day2 == <<"2024", "-", "12", "-", "02">>

PseHeader ==
  <<<<"TYPE">>, <<"DATE">>, <<"START TIME">>, <<"END TIME">>, <<"USAGE (kWh)">>,
    <<"NOTES">>>>
PseName == << <<"Name">>, <<"JOHN DOE">> >>
PseElectric ==
  << <<"Electric usage">>, Day1, <<"00:00">>, <<"00:30">>, <<"1.5">>, <<>> >>
PseGas ==
  << <<"Natural gas usage">>, Day2, <<"00:00">>, <<"00:30">>, <<"2.0">>, <<>> >>
PseWater ==
  << <<"Water usage">>, Day1, <<"00:00">>, <<"00:30">>, <<"1.5">>, <<>> >>
PseNotANumber ==
  << <<"Electric usage">>, Day2, <<"00:00">>, <<"00:30">>, <<"n/a">>, <<>> >>
PseRows ==
  {<<>>, PseName, PseHeader, PseElectric, PseGas, PseWater, PseNotANumber}

\* the provider exports a run of the pipeline may meet
PseFiles ==
  { <<PseName, <<>>, PseHeader, PseElectric, PseGas>>,
    <<PseHeader, PseGas, PseElectric, PseGas>>,
    <<PseHeader, PseWater, PseElectric>>,
    <<PseHeader, PseElectric, PseWater>>,
    <<PseName, PseHeader>>,
    <<PseName, PseElectric>>,
    <<>>,
    <<PseHeader, PseNotANumber>>,
    <<PseHeader, PseGas, <<>>>> }

GoveeHeader == << <<"Timestamp">>, <<"Temperature">>, <<"Humidity">> >>
GoveeDay1 == << Day1 \o <<" ", "00:00">>, <<"70.5">>, <<"45.0">> >>
GoveeDay2 == << Day2 \o <<" ", "00:00">>, <<"70.5">>, <<"45.0">> >>
GoveeNotANumber == << Day2 \o <<" ", "00:00">>, <<"70.5">>, <<"">> >>
GoveeRows == {<<>>, GoveeHeader, GoveeDay1, GoveeDay2, GoveeNotANumber}

\* the sensor exports a run of the pipeline may meet
GoveeFiles ==
  { <<GoveeHeader, GoveeDay1, GoveeDay2>>,
    <<GoveeHeader, GoveeDay2>>,
    <<GoveeDay1, GoveeDay2>>,
    <<GoveeHeader>>,
    <<>>,
    <<GoveeHeader, GoveeNotANumber>>,
    <<GoveeHeader, GoveeDay1, <<>>>> }

EntryNames == { <<"usage", ".csv">>, <<"gas", ".csv">>, <<"readme", ".txt">> }

\* what os.listdir can return for a directory holding the names in S
Listings(S) == {l \in [1..Cardinality(S) -> S] : \A a, b \in 1..Cardinality(S) : l[a] = l[b] => a = b}

ZipListings == UNION {Listings(S) : S \in SUBSET EntryNames}

\* fh: whether a parser holds the file open, and the rows of the file last opened
NoFile == [open |-> FALSE, rows |-> <<>>]
Closed(f) == [open |-> FALSE, rows |-> f.rows]
NoResult == [statusCode |-> 0]
EmptyDir == <<>>

\* ------------------------------------------------------------------- Init
Init ==
  /\ mode \in {"cli", "aws"}
  /\ IF mode = "cli"
     THEN argv \in {a \in SeqsUpTo(Paths, MaxFiles) : Len(a) >= 1} /\ key = <<>>
     ELSE argv = <<>> /\ key \in Paths
  /\ files = <<>>
  /\ pc = "idle"
  /\ i = 0
  /\ listing = <<>>
  /\ fh = NoFile
  /\ pse_data = <<>>
  /\ govee_data = <<>>
  /\ wk = 0
  /\ outdir = EmptyDir
  /\ written = <<>>
  /\ tmpdirs = IF mode = "aws" THEN {"indir"} ELSE {}
  /\ exc = "none"
  /\ hpc = IF mode = "aws" THEN "download" ELSE "main"
  /\ uplist = <<>>
  /\ outkeys = <<>>
  /\ s3calls = <<>>
  /\ result = NoResult

\* ------------------------------------------------------------- exceptions
\* lambda_handler's "except Exception": SystemExit is a BaseException only
IsCaught(e) == e # "SystemExit"

\* TmpAfterRaise with the extraction directory made by mkdtemp, not a with block
TmpAfterRaise_Leak ==
  IF mode = "cli" THEN tmpdirs ELSE tmpdirs \cap {"extract_dir"}

\* the temporary directories left once an exception has unwound every
\* "with tempfile.TemporaryDirectory()" block it passes through
TmpAfterRaise == IF mode = "cli" THEN tmpdirs \ {"extract_dir"} ELSE {}

\* an exception e raised at the current position: it unwinds convert_files
\* and, in lambda_handler, reaches the except clause or leaves the handler
Raise(e) ==
  /\ exc' = e
  /\ pc' = IF pc = "idle" \/ pc = "returned" THEN pc ELSE "raised"
  /\ tmpdirs' = TmpAfterRaise
  /\ listing' = <<>>
  /\ fh' = Closed(fh)
  /\ uplist' = <<>>
  /\ IF mode = "cli"
     THEN UNCHANGED <<outdir, hpc, result>>
     ELSE /\ outdir' = EmptyDir
          /\ hpc' = IF IsCaught(e) THEN "returned" ELSE "propagated"
          /\ result' = IF IsCaught(e)
                       THEN [statusCode |-> 500, error |-> e]
                       ELSE NoResult

\* ---------------------------------------------------------- convert_files
\* the call: convert_files(sys.argv[1:], ".") or convert_files([local_path], outdir)
ConvertBegin ==
  /\ pc = "idle"
  /\ \/ hpc = "main" /\ files' = argv /\ UNCHANGED <<tmpdirs, hpc>>
     \/ /\ hpc = "convert"
        /\ files' = << <<"indir", "/">> \o Basename(key) >>
        /\ tmpdirs' = tmpdirs \cup {"outdir"}
        /\ hpc' = "converting"
  /\ pse_data' = <<>>
  /\ govee_data' = <<>>
  /\ i' = 1
  /\ pc' = "loop"
  /\ UNCHANGED <<mode, argv, key, listing, fh, wk, outdir, written, exc, uplist,
                 outkeys, s3calls, result>>

\* "for path in files": the next path, or the end of the loop
LoopNext ==
  /\ pc = "loop"
  /\ IF i > Len(files)
     THEN pc' = "write_pse" /\ wk' = 1 /\ UNCHANGED tmpdirs
     ELSE IF EndsWith(files[i], ".zip")
     THEN pc' = "extract" /\ tmpdirs' = tmpdirs \cup {"extract_dir"} /\ UNCHANGED wk
     ELSE pc' = "csv_check" /\ UNCHANGED <<wk, tmpdirs>>
  /\ fh' = NoFile
  /\ UNCHANGED <<mode, argv, key, files, i, listing, pse_data, govee_data,
                 outdir, written, exc, hpc, uplist, outkeys, s3calls, result>>

\* ExtractZip with a BadZipFile handler that prints and returns
ExtractZip_NoExit ==
  /\ pc = "extract"
  /\ \E outcome \in IF IsBadZip(files[i]) THEN {"BadZipFile"} ELSE {"ok", "OSError"} :
       IF outcome = "ok"
       THEN /\ listing' \in ZipListings
            /\ pc' = "listdir"
            /\ UNCHANGED <<fh, tmpdirs, exc, outdir, hpc, result, uplist>>
       ELSE IF outcome = "BadZipFile"
       THEN /\ listing' = <<>>
            /\ pc' = "listdir"
            /\ UNCHANGED <<fh, tmpdirs, exc, outdir, hpc, result, uplist>>
       ELSE Raise("SystemExit")
  /\ UNCHANGED <<mode, argv, key, files, i, pse_data, govee_data, wk, written,
                 outkeys, s3calls>>

\* extract_zip(path, extract_dir), then os.listdir(extract_dir)
ExtractZip ==
  /\ pc = "extract"
  /\ \E outcome \in IF IsBadZip(files[i]) THEN {"BadZipFile"} ELSE {"ok", "OSError"} :
       IF outcome = "ok"
       THEN /\ listing' \in ZipListings
            /\ pc' = "listdir"
            /\ UNCHANGED <<fh, tmpdirs, exc, outdir, hpc, result, uplist>>
       ELSE Raise("SystemExit")
  /\ UNCHANGED <<mode, argv, key, files, i, pse_data, govee_data, wk, written,
                 outkeys, s3calls>>

\* "for name in os.listdir(extract_dir)": the next name; a .csv is opened
NextEntry ==
  /\ pc = "listdir"
  /\ IF listing = <<>>
     THEN /\ pc' = "csv_check"
          /\ tmpdirs' = tmpdirs \ {"extract_dir"}
          /\ fh' = NoFile
          /\ UNCHANGED listing
     ELSE IF EndsWith(Head(listing), ".csv")
     THEN /\ pc' = "parse_pse"
          /\ fh' \in {[open |-> TRUE, rows |-> r] : r \in PseFiles}
          /\ UNCHANGED <<listing, tmpdirs>>
     ELSE /\ listing' = Tail(listing)
          /\ fh' = NoFile
          /\ UNCHANGED <<pc, tmpdirs>>
  /\ UNCHANGED <<mode, argv, key, files, i, pse_data, govee_data, wk, outdir,
                 written, exc, hpc, uplist, outkeys, s3calls, result>>

\* parse_pse_csv(os.path.join(extract_dir, name), pse_data)
ParsePse ==
  /\ pc = "parse_pse"
  /\ LET r == parse_pse_csv(fh.rows, pse_data)
     IN /\ pse_data' = r.data
        /\ IF r.exc = "none"
           THEN /\ pc' = "listdir"
                /\ listing' = Tail(listing)
                /\ fh' = Closed(fh)
                /\ UNCHANGED <<tmpdirs, exc, outdir, hpc, result, uplist>>
           ELSE Raise(r.exc)
  /\ UNCHANGED <<mode, argv, key, files, i, govee_data, wk, written, outkeys,
                 s3calls>>

\* CsvCheck with "else:" in place of the second suffix test
CsvCheck_Else ==
  /\ pc = "csv_check"
  /\ IF ~EndsWith(files[i], ".zip")
     THEN /\ pc' = "parse_govee"
          /\ fh' \in {[open |-> TRUE, rows |-> r] : r \in GoveeFiles}
          /\ UNCHANGED i
     ELSE /\ pc' = "loop"
          /\ i' = i + 1
          /\ UNCHANGED fh
  /\ UNCHANGED <<mode, argv, key, files, listing, pse_data, govee_data, wk,
                 outdir, written, tmpdirs, exc, hpc, uplist, outkeys, s3calls,
                 result>>

\* "if path.endswith('.csv')": the file is opened, or the path is done
CsvCheck ==
  /\ pc = "csv_check"
  /\ IF EndsWith(files[i], ".csv")
     THEN /\ pc' = "parse_govee"
          /\ fh' \in {[open |-> TRUE, rows |-> r] : r \in GoveeFiles}
          /\ UNCHANGED i
     ELSE /\ pc' = "loop"
          /\ i' = i + 1
          /\ UNCHANGED fh
  /\ UNCHANGED <<mode, argv, key, files, listing, pse_data, govee_data, wk,
                 outdir, written, tmpdirs, exc, hpc, uplist, outkeys, s3calls,
                 result>>

\* parse_govee_csv(path, govee_data)
ParseGovee ==
  /\ pc = "parse_govee"
  /\ LET r == parse_govee_csv(files[i], fh.rows, govee_data)
     IN /\ govee_data' = r.data
        /\ IF r.exc = "none"
           THEN /\ pc' = "loop"
                /\ i' = i + 1
                /\ fh' = Closed(fh)
                /\ UNCHANGED <<listing, tmpdirs, exc, outdir, hpc, result, uplist>>
           ELSE Raise(r.exc) /\ UNCHANGED i
  /\ UNCHANGED <<mode, argv, key, files, pse_data, wk, written, outkeys, s3calls>>

PSE_USAGE_TYPES ==
  (<<"Electric usage">> :> [type_name |-> "electricity", units |-> "kwh"]) @@
  (<<"Natural gas usage">> :> [type_name |-> "gas", units |-> "ccf"])

\* f"{name}_{first_date}_{last_date}.csv"
OutName(name, dr) ==
  name \o <<"_">> \o dr.first_date \o <<"_">> \o dr.last_date \o <<".csv">>

\* "for usage_type in pse_data": writes one provider series, or ends the loop
WritePse ==
  /\ pc = "write_pse"
  /\ IF wk > Len(pse_data)
     THEN /\ pc' = "write_govee"
          /\ wk' = 1
          /\ UNCHANGED <<outdir, written, exc, tmpdirs, listing, fh, uplist, hpc,
                         result>>
     ELSE LET usage_type == pse_data[wk].k
              data == pse_data[wk].v
              dr == get_data_range_dates(data)
          IN IF usage_type \notin DOMAIN PSE_USAGE_TYPES
             THEN Raise("KeyError") /\ UNCHANGED <<wk, written>>
             ELSE IF dr.exc # "none"
             THEN Raise(dr.exc) /\ UNCHANGED <<wk, written>>
             ELSE LET t == PSE_USAGE_TYPES[usage_type]
                      name == OutName(<<t.type_name>>, dr)
                      header == << <<"start">>, <<"end">>, <<"usage_", t.units>> >>
                  IN /\ outdir' = (name :> (<<header>> \o data)) @@ outdir
                     /\ written' = Append(written, name)
                     /\ wk' = wk + 1
                     /\ UNCHANGED <<pc, exc, tmpdirs, listing, fh, uplist, hpc,
                                    result>>
  /\ UNCHANGED <<mode, argv, key, files, i, pse_data, govee_data, outkeys, s3calls>>

\* "for sensor in govee_data": writes one sensor series, or returns
WriteGovee ==
  /\ pc = "write_govee"
  /\ IF wk > Len(govee_data)
     THEN /\ pc' = "returned"
          /\ UNCHANGED <<wk, outdir, written, exc, tmpdirs, listing, fh, uplist,
                         hpc, result>>
     ELSE LET sensor == govee_data[wk].k
              data == govee_data[wk].v
              dr == get_data_range_dates(data)
          IN IF dr.exc # "none"
             THEN Raise(dr.exc) /\ UNCHANGED <<wk, written>>
             ELSE LET name == OutName(sensor, dr)
                      header == << <<"timestamp">>, <<"temp_degf">>,
                                   <<"relative_humidity">> >>
                  IN /\ outdir' = (name :> (<<header>> \o data)) @@ outdir
                     /\ written' = Append(written, name)
                     /\ wk' = wk + 1
                     /\ UNCHANGED <<pc, exc, tmpdirs, listing, fh, uplist, hpc,
                                    result>>
  /\ UNCHANGED <<mode, argv, key, files, i, pse_data, govee_data, outkeys, s3calls>>

\* --------------------------------------------------------- lambda_handler
S3Call(op, k, ok) == [op |-> op, key |-> k, ok |-> ok]

\* s3.download_file(bucket, key, local_path)
Download ==
  /\ hpc = "download"
  /\ \E ok \in BOOLEAN :
       /\ s3calls' = Append(s3calls, S3Call("download_file", key, ok))
       /\ IF ok
          THEN /\ hpc' = "convert"
               /\ UNCHANGED <<pc, exc, tmpdirs, listing, fh, uplist, outdir, result>>
          ELSE Raise("ClientError")
  /\ UNCHANGED <<mode, argv, key, files, i, pse_data, govee_data, wk, written,
                 outkeys>>

\* ListOutdir with the first name of the listing dropped
ListOutdir_DropFirst ==
  /\ hpc = "converting"
  /\ pc = "returned"
  /\ uplist' \in {SubSeq(l, 2, Len(l)) : l \in Listings(DOMAIN outdir)}
  /\ hpc' = "upload"
  /\ UNCHANGED <<mode, argv, key, files, pc, i, listing, fh, pse_data, govee_data,
                 wk, outdir, written, tmpdirs, exc, outkeys, s3calls, result>>

\* os.listdir(outdir), once convert_files has returned
ListOutdir ==
  /\ hpc = "converting"
  /\ pc = "returned"
  /\ uplist' \in Listings(DOMAIN outdir)
  /\ hpc' = "upload"
  /\ UNCHANGED <<mode, argv, key, files, pc, i, listing, fh, pse_data, govee_data,
                 wk, outdir, written, tmpdirs, exc, outkeys, s3calls, result>>

\* "for file in os.listdir(outdir)": uploads one file, or leaves the block
\* that holds outdir
Upload ==
  /\ hpc = "upload"
  /\ IF uplist = <<>>
     THEN /\ hpc' = "delete"
          /\ tmpdirs' = tmpdirs \ {"outdir"}
          /\ outdir' = EmptyDir
          /\ UNCHANGED <<pc, exc, listing, fh, uplist, result, outkeys, s3calls>>
     ELSE LET file == Head(uplist)
          IN IF ~EndsWith(file, ".csv")
             THEN /\ uplist' = Tail(uplist)
                  /\ UNCHANGED <<pc, exc, tmpdirs, listing, fh, outdir, hpc, result,
                                 outkeys, s3calls>>
             ELSE \E ok \in BOOLEAN :
                    /\ s3calls' = Append(s3calls, S3Call("upload_file", file, ok))
                    /\ IF ok
                       THEN /\ outkeys' = Append(outkeys, file)
                            /\ uplist' = Tail(uplist)
                            /\ UNCHANGED <<pc, exc, tmpdirs, listing, fh, outdir,
                                           hpc, result>>
                       ELSE Raise("ClientError") /\ UNCHANGED outkeys
  /\ UNCHANGED <<mode, argv, key, files, i, pse_data, govee_data, wk, written>>

\* Delete with the delete_object call placed ahead of the upload loop
Delete_BeforeUpload ==
  /\ hpc \in {"upload", "delete"}
  /\ \E ok \in BOOLEAN :
       /\ s3calls' = Append(s3calls, S3Call("delete_object", key, ok))
       /\ IF ok
          THEN /\ hpc' = "returned"
               /\ result' = [statusCode |-> 200, bucket |-> "OUTPUT_BUCKET",
                             keys |-> outkeys]
               /\ tmpdirs' = {}
               /\ UNCHANGED <<pc, exc, listing, fh, uplist, outdir>>
          ELSE Raise("ClientError")
  /\ UNCHANGED <<mode, argv, key, files, i, pse_data, govee_data, wk, written,
                 outkeys>>

\* s3.delete_object(Bucket=bucket, Key=key), then the success result
Delete ==
  /\ hpc = "delete"
  /\ \E ok \in BOOLEAN :
       /\ s3calls' = Append(s3calls, S3Call("delete_object", key, ok))
       /\ IF ok
          THEN /\ hpc' = "returned"
               /\ result' = [statusCode |-> 200, bucket |-> "OUTPUT_BUCKET",
                             keys |-> outkeys]
               /\ tmpdirs' = {}
               /\ UNCHANGED <<pc, exc, listing, fh, uplist, outdir>>
          ELSE Raise("ClientError")
  /\ UNCHANGED <<mode, argv, key, files, i, pse_data, govee_data, wk, written,
                 outkeys>>

Next ==
  \/ ConvertBegin
  \/ LoopNext
  \/ ExtractZip
  \/ NextEntry
  \/ ParsePse
  \/ CsvCheck
  \/ ParseGovee
  \/ WritePse
  \/ WriteGovee
  \/ Download
  \/ ListOutdir
  \/ Upload
  \/ Delete

Spec == Init /\ [][Next]_vars

\* ------------------------------------------------------------ the parsers
\* The two parsers alone, applied to every file of at most MaxRows rows, with
\* the accumulator empty or holding the series of an earlier file.
ParserInit ==
  /\ mode = "cli"
  /\ argv \in {<<ZipPath>>, <<SensorPath>>, <<PlainCsvPath>>}
  /\ key = <<>>
  /\ files = argv
  /\ i = 1
  /\ IF EndsWith(argv[1], ".zip")
     THEN /\ pc = "parse_pse"
          /\ listing = << <<"usage", ".csv">> >>
          /\ tmpdirs = {"extract_dir"}
          /\ fh \in {[open |-> TRUE, rows |-> r] : r \in SeqsUpTo(PseRows, MaxRows)}
          /\ pse_data \in {<<>>, PseLoop(<<PseGas, PseElectric>>, 1, <<>>).data}
          /\ govee_data = <<>>
     ELSE /\ pc = "parse_govee"
          /\ listing = <<>>
          /\ tmpdirs = {}
          /\ fh \in {[open |-> TRUE, rows |-> r] : r \in SeqsUpTo(GoveeRows, MaxRows)}
          /\ pse_data = <<>>
          /\ govee_data \in {<<>>, GoveeLoop(<<GoveeDay1>>, 1, <<"kitchen">>, <<>>).data,
                              GoveeLoop(<<GoveeDay1>>, 1, <<"attic">>, <<>>).data}
  /\ wk = 0
  /\ outdir = EmptyDir
  /\ written = <<>>
  /\ exc = "none"
  /\ hpc = "main"
  /\ uplist = <<>>
  /\ outkeys = <<>>
  /\ s3calls = <<>>
  /\ result = NoResult

ParserNext == ParsePse \/ ParseGovee

ParserSpec == ParserInit /\ [][ParserNext]_vars

\* ============================================================ properties
Range(s) == {s[j] : j \in 1..Len(s)}

RECURSIVE TotalLen(_, _)
\* the number of records a dict holds from item j on
TotalLen(d, j) == IF j > Len(d) THEN 0 ELSE Len(d[j].v) + TotalLen(d, j + 1)

\* the records of a dict under key k, <<>> when the key is absent
Series(d, k) == IF k \in Keys(d) THEN Get(d, k) ELSE <<>>

Calls(op) == {n \in 1..Len(s3calls) : s3calls[n].op = op}

UnknownLabels == {k \in Keys(pse_data) : k \notin DOMAIN PSE_USAGE_TYPES}

\* the output file a provider series / a sensor series is due
PseFile(k) ==
  OutName(<<PSE_USAGE_TYPES[k].type_name>>, get_data_range_dates(Get(pse_data, k)))
GoveeFile(k) == OutName(k, get_data_range_dates(Get(govee_data, k)))

\* C1: once convert_files has reached its output stage with a usage-type label
\* outside the catalog in the provider accumulator, the run has failed with the
\* lookup error and the file of every other provider series and of every
\* sensor series has been written.
C1_UnknownLabelKeepsOthers ==
  (pc \in {"returned", "raised"} /\ exc \in {"none", "KeyError"}
     /\ UnknownLabels # {})
  => /\ exc = "KeyError"
     /\ \A k \in Keys(pse_data) \ UnknownLabels : PseFile(k) \in Range(written)
     /\ \A k \in Keys(govee_data) : GoveeFile(k) \in Range(written)

\* C2: every failure in lambda_handler's flow ends with the handler returning
\* the failure result with statusCode 500; none leaves the handler.
C2_EveryFailureReturns500 ==
  (mode = "aws" /\ exc # "none") => (hpc = "returned" /\ result.statusCode = 500)

\* C3: delete_object is called only after download_file succeeded,
\* convert_files returned and every file it produced was uploaded; no call
\* before it failed.
C3_DeleteOnlyAfterSuccess ==
  \A n \in Calls("delete_object") :
    /\ pc = "returned"
    /\ \E m \in 1..(n - 1) : s3calls[m] = S3Call("download_file", key, TRUE)
    /\ \A f \in Range(written) :
         \E m \in 1..(n - 1) : s3calls[m] = S3Call("upload_file", f, TRUE)
    /\ \A m \in 1..(n - 1) : s3calls[m].ok

C3_Witness ==
  /\ Calls("delete_object") # {}
  /\ Cardinality(Range(written)) >= 2

\* C4: archive expansion of a .zip path that holds no zip container ends the
\* run there with nothing written to the output directory, whatever was
\* parsed before; nothing happens after it.
C4_BadZipTerminates ==
  [][/\ (pc = "extract" /\ IsBadZip(files[i]))
          => (exc' = "SystemExit" /\ pc' = "raised" /\ written' = <<>>
              /\ DOMAIN outdir' = {})
     /\ exc # "SystemExit"]_vars

C4_Witness ==
  /\ exc = "SystemExit"
  /\ i = 2
  /\ IsBadZip(files[i])
  /\ TotalLen(govee_data, 1) >= 1

\* C5: parsing a valid provider export (a "TYPE" row, then only well-formed
\* rows) succeeds and appends one record per row after the first "TYPE" row,
\* under the row's label and in row order; earlier rows add nothing.
IsTypeRow(row) == Len(row) > 0 /\ row[1] = <<"TYPE">>
C5_Header(rows) ==
  CHOOSE h \in 1..Len(rows) :
    IsTypeRow(rows[h]) /\ \A g \in 1..(h - 1) : ~IsTypeRow(rows[g])
C5_DataRows(rows) == SubSeq(rows, C5_Header(rows) + 1, Len(rows))
C5_Valid(rows) ==
  /\ \E h \in 1..Len(rows) : IsTypeRow(rows[h])
  /\ \A r \in Range(C5_DataRows(rows)) : Len(r) >= 5 /\ r[5] \in {<<"1.5">>, <<"2.0">>}
C5_Records(rows, label) ==
  LET HasLabel(r) == r[1] = label
      mine == SelectSeq(C5_DataRows(rows), HasLabel)
  IN [j \in 1..Len(mine) |->
        <<mine[j][2] \o <<" ">> \o mine[j][3], mine[j][2] \o <<" ">> \o mine[j][4],
          IF mine[j][5] = <<"1.5">> THEN 15 ELSE 20>>]
C5_OneRecordPerDataRow ==
  [][(pc = "parse_pse" /\ C5_Valid(fh.rows))
       => /\ exc' = "none"
          /\ TotalLen(pse_data', 1)
               = TotalLen(pse_data, 1) + Len(fh.rows) - C5_Header(fh.rows)
          /\ \A label \in Keys(pse_data) \cup Keys(pse_data')
                          \cup {r[1] : r \in Range(C5_DataRows(fh.rows))} :
               Series(pse_data', label)
                 = Series(pse_data, label) \o C5_Records(fh.rows, label)]_vars

C5_Witness ==
  /\ pc = "listdir"
  /\ exc = "none"
  /\ Len(fh.rows) = 3
  /\ ~fh.open
  /\ C5_Valid(fh.rows)
  /\ C5_Header(fh.rows) = 2
  /\ TotalLen(pse_data, 1) >= 2

\* C6: parsing a valid sensor export (any first row, then only well-formed
\* rows) succeeds, discards the first row and appends one record per later
\* row, all under the one series key of the filename.
C6_Valid(rows) ==
  /\ Len(rows) >= 1
  /\ \A j \in 2..Len(rows) :
       Len(rows[j]) >= 3 /\ rows[j][2] = <<"70.5">> /\ rows[j][3] = <<"45.0">>
C6_Key ==
  IF Basename(files[i]) = <<"Kitchen", "_", "Export", ".csv">>
  THEN <<"kitchen", "_temp">>
  ELSE <<"bedroom", ".csv", "_temp">>
C6_AllRowsButFirst ==
  [][(pc = "parse_govee" /\ C6_Valid(fh.rows))
       => /\ exc' = "none"
          /\ TotalLen(govee_data', 1) = TotalLen(govee_data, 1) + Len(fh.rows) - 1
          /\ Len(Series(govee_data', C6_Key))
               = Len(Series(govee_data, C6_Key)) + Len(fh.rows) - 1
          /\ \A j \in 2..Len(fh.rows) :
               Series(govee_data', C6_Key)[Len(Series(govee_data, C6_Key)) + j - 1]
                 = <<fh.rows[j][1], 705, 450>>]_vars

C6_Witness ==
  /\ pc = "loop"
  /\ exc = "none"
  /\ ~fh.open
  /\ Len(fh.rows) = 3
  /\ Len(fh.rows[1]) >= 3 /\ fh.rows[1][2] = <<"70.5">>
  /\ TotalLen(govee_data, 1) >= 2

\* C7: a success result carries exactly the files convert_files produced,
\* each uploaded under its filename before the delete of the source object,
\* which has succeeded.
C7_SuccessResult ==
  result.statusCode = 200
  => /\ Range(result.keys) = Range(written)
     /\ Len(result.keys) = Cardinality(Range(written))
     /\ \A f \in Range(written) : EndsWith(f, ".csv")
     /\ \E d \in Calls("delete_object") :
          /\ s3calls[d] = S3Call("delete_object", key, TRUE)
          /\ \A f \in Range(written) :
               \E m \in 1..(d - 1) : s3calls[m] = S3Call("upload_file", f, TRUE)

C7_Witness ==
  /\ result.statusCode = 200
  /\ Len(result.keys) >= 2

\* C8: while convert_files is at a path, a .zip path leaves the sensor
\* accumulator alone, a .csv path leaves the provider accumulator alone, any
\* other path leaves both alone and raises nothing; paths are taken in order.
AtPath == pc \in {"extract", "listdir", "parse_pse", "csv_check", "parse_govee"}
C8_ClassifiedBySuffix ==
  [][AtPath
       => /\ EndsWith(files[i], ".zip") => govee_data' = govee_data
          /\ EndsWith(files[i], ".csv") => pse_data' = pse_data
          /\ (~EndsWith(files[i], ".zip") /\ ~EndsWith(files[i], ".csv"))
               => (govee_data' = govee_data /\ pse_data' = pse_data
                   /\ exc' = "none")
          /\ i' \in {i, i + 1}
          /\ files' = files]_vars

C8_Witness ==
  /\ pc = "write_pse"
  /\ Len(files) = 2
  /\ files[1] = OtherPath
  /\ files[2] = ZipPath
  /\ pse_data # <<>>
  /\ govee_data = <<>>

\* C9: an extraction directory exists only between its creation for a .zip
\* path and the end of that path's listing: never when the next path is
\* taken, when an output file is written, or once convert_files has ended.
C9_ExtractDirScoped ==
  "extract_dir" \in tmpdirs
  => (pc \in {"extract", "listdir", "parse_pse"} /\ written = <<>>)

C9_Witness ==
  /\ pc = "raised"
  /\ exc \in {"ValueError", "SystemExit"}
  /\ EndsWith(files[i], ".zip")
  /\ mode = "cli"

\* C10: every key of either accumulator holds at least one record, and
\* parsing a file that has no data rows after its header adds no key and
\* raises nothing.
NonEmptySeries ==
  /\ \A j \in 1..Len(pse_data) : Len(pse_data[j].v) >= 1
  /\ \A j \in 1..Len(govee_data) : Len(govee_data[j].v) >= 1
C10_NoEmptySeries ==
  /\ []NonEmptySeries
  /\ [][/\ (pc = "parse_pse" /\ Len(fh.rows) >= 1
              /\ IsTypeRow(fh.rows[Len(fh.rows)])
              /\ \A g \in 1..(Len(fh.rows) - 1) : ~IsTypeRow(fh.rows[g]))
             => (pse_data' = pse_data /\ exc' = "none")
        /\ (pc = "parse_govee" /\ Len(fh.rows) = 1)
             => (govee_data' = govee_data /\ exc' = "none")]_vars

C10_Witness ==
  /\ pc = "listdir"
  /\ exc = "none"
  /\ ~fh.open
  /\ Len(fh.rows) >= 1
  /\ IsTypeRow(fh.rows[Len(fh.rows)])
  /\ \A g \in 1..(Len(fh.rows) - 1) : ~IsTypeRow(fh.rows[g])
  /\ pse_data = <<>>

====
